---- MODULE Spec2Model ----
(***************************************************************************)
(* Model of EpicGamesClient (epic_games_bot/epic.py): the session /        *)
(* authentication manager, the catalog query and the claim executor,       *)
(* together with the two files that back them (session.json and            *)
(* claimed_games.json).                                                    *)
(*                                                                         *)
(* Every method of the client is an operator from the client's state (a    *)
(* record of its fields and its files), the clock and the outcome of each  *)
(* remote request / file write to the client's state after the call, the   *)
(* value returned and the list of requests sent.  Each action applies one  *)
(* method to the current state for some outcome of the outside world.      *)
(*                                                                         *)
(* The application (app.py) adds the cycle check_and_claim_free_games and  *)
(* the 2FA callback handle_2fa; the chat bot (telegram_bot.py) adds the    *)
(* /tfa conversation through which a two-factor code is supplied.          *)
(***************************************************************************)
EXTENDS Integers, Sequences, FiniteSets, TLC

VARIABLES access_token, refresh_token, account_id, expires_at, expires_at_key,
          claimed_games, session_file, claimed_games_file,
          now, startup_ledger, returned_true, last,
          telegram_bot, tfa_callback, conversation, pending_reply, rejected,
          mode, immediate_jobs, pending, resume_due, threads

vars == <<access_token, refresh_token, account_id, expires_at, expires_at_key,
          claimed_games, session_file, claimed_games_file,
          now, startup_ledger, returned_true, last,
          telegram_bot, tfa_callback, conversation, pending_reply, rejected,
          mode, immediate_jobs, pending, resume_due, threads>>

\* The chat bot of the application (telegram_bot.py): whether one is
\* configured, the registered 2FA callback, the state of the /tfa
\* conversation of the authorized chat, the result of the callback that
\* _process_2fa_code has still to report, and whether the last code supplied
\* since a login asked for one was rejected.
bot == <<telegram_bot, tfa_callback, conversation, pending_reply, rejected>>

\* The process (app.py, main): how it was started ("daemon": start() ran and
\* the scheduler and the bot are running; "cli": with --2fa-code; "exited"),
\* the run-once jobs queued in the scheduler, whether a login has asked for a
\* second factor and no code was supplied since, and whether a code was
\* accepted and get_free_games has not been called since; and the threads in
\* which a cycle runs, each with its position in the cycle.
app == <<mode, immediate_jobs, pending, resume_due, threads>>

----------------------------------------------------------------------------
(* Bounds of the model *)

MaxTicks == 2

MaxClaimed == 2

MaxCatalog == 3

MaxJobs == 2

MaxOffers == 2

----------------------------------------------------------------------------
(* Values *)

\* Python None, a key that is absent from a JSON object, and JSON null.
None == "None"

Missing == "Missing"

\* seconds by which a token is refreshed before it expires
RefreshSkew == 300

\* expires_in assumed when the token response carries none
DefaultExpiresIn == 28800

\* seconds the clock advances in one step of the model
TickStep == RefreshSkew

\* states of a file: it does not exist, or its content is not valid JSON (a
\* write that failed part-way after open(..., 'w') truncated the file);
\* otherwise "ok"
Absent == "Absent"

Corrupt == "Corrupt"

Ids == {"a", "b", "c"}

AccessTokens == {"t1", "t2"}

RefreshTokens == {"r1"}

\* Python truthiness of the values the model uses: None, the empty string,
\* False and 0 are falsy, as is the default of a missing key where the code
\* passes a falsy default.
Truthy(v) == v \notin {None, "", Missing, "false", "0"}

Range(s) == {s[i] : i \in 1..Len(s)}

\* number of occurrences of x in the sequence s
Count(s, x) == Cardinality({i \in 1..Len(s) : s[i] = x})

----------------------------------------------------------------------------
(* Outcomes of the outside world *)

\* a file write: done, failed before the file was opened (file untouched),
\* failed after the file was opened for writing (file truncated / partial)
WriteOutcomes == {"ok", "open_fail", "dump_fail"}

\* POST .../oauth/token: a transport error or unparsable body ("exception"),
\* a status other than 200, or 200 with a JSON object.  expires_in_key tells
\* whether the object has no expires_in key, a null one, or a number.
TokenResponses ==
    {[kind |-> k, access_token |-> None, refresh_token |-> None,
      account_id |-> None, expires_in_key |-> Missing, expires_in |-> 0] :
        k \in {"exception", "status_err"}}
    \cup
    [kind : {"ok"}, access_token : AccessTokens \cup {None},
     refresh_token : RefreshTokens \cup {None},
     account_id : {"acct"}, expires_in_key : {Missing, None}, expires_in : {0}]
    \cup
    [kind : {"ok"}, access_token : AccessTokens \cup {None},
     refresh_token : RefreshTokens \cup {None},
     account_id : {"acct"}, expires_in_key : {"number"}, expires_in : {0, 600}]

\* POST /id/api/login
LoginResponses ==
    {[kind |-> k, twoFactorRequired |-> Missing, method |-> Missing] :
        k \in {"exception", "status_err"}}
    \cup
    [kind : {"ok"}, twoFactorRequired : {Missing, "true"}, method : {Missing, "email", ""}]

\* GET /id/api/redirect: 200 with a redirectUrl that carries code=..., 200
\* without one, another status, a transport error
RedirectResponses == {"code", "no_code", "status_err", "exception"}

\* POST /id/api/login/mfa
MfaResponses == {"ok", "status_err", "exception"}

\* the values orderComplete can take in a JSON response
OrderCompleteValues == {"true", "false", Missing, None, "1", "0", "str"}

\* POST graphql purchaseOrderMutation.  "malformed" is a 200 response whose
\* body is not JSON or whose data / purchaseOrder / orderResponse is null.
ClaimResponses ==
    {[kind |-> k, orderComplete |-> Missing] :
        k \in {"exception", "status_err", "malformed"}}
    \cup
    [kind : {"ok"}, orderComplete : OrderCompleteValues]

\* catalog entries.  price tells the shape of the entry's price structure:
\* "number" (price.totalPrice.discountPrice is the number discountPrice),
\* Missing (no price, totalPrice or discountPrice key), None ("discountPrice":
\* null) and "NullPrice" ("price": null or "totalPrice": null).
Element(id, title, namespace, price, discountPrice) ==
    [id |-> id, title |-> title, namespace |-> namespace, price |-> price,
     discountPrice |-> discountPrice, description |-> "D"]

\* the entry e without a description
Undescribed(e) == [e EXCEPT !.description = Missing]

Elements ==
    {Element("a", "T", "ns", "number", 0),
     Element("b", "T", "ns", "number", 500),
     Element("c", "T", "ns", "number", 0),
     Element("b", "T", "ns", Missing, 0),
     Element("a", "T", "ns", "NullPrice", 0),
     Element("c", "T", "ns", None, 0),
     Element(Missing, Missing, Missing, "number", 0)}

RECURSIVE SeqsUpTo(_, _)
SeqsUpTo(S, n) ==
    IF n = 0 THEN {<<>>}
    ELSE LET shorter == SeqsUpTo(S, n - 1)
         IN  shorter \cup {Append(s, e) : s \in {q \in shorter : Len(q) = n - 1}, e \in S}

\* GET freegames
CatalogResponses ==
    {[kind |-> k, elements |-> <<>>] : k \in {"exception", "status_err"}}
    \cup
    {[kind |-> "ok", elements |-> es] : es \in SeqsUpTo(Elements, MaxCatalog)}

\* the dictionaries passed to claim_game
Games ==
    [id : Ids, title : {"T"}, namespace : {"ns"}]
    \cup
    {[id |-> None, title |-> "T", namespace |-> "ns"],
     [id |-> "a", title |-> "", namespace |-> "ns"],
     [id |-> "b", title |-> "T", namespace |-> None]}

----------------------------------------------------------------------------
(* The client *)

\* expires_at_key tells what self.expires_at holds: a number (expires_at),
\* None or a string, as a session file with "expires_at": null or
\* "expires_at": "..." loads it.
Self == [access_token |-> access_token, refresh_token |-> refresh_token,
         account_id |-> account_id, expires_at |-> expires_at,
         expires_at_key |-> expires_at_key,
         claimed_games |-> claimed_games, session_file |-> session_file,
         claimed_games_file |-> claimed_games_file]

\* the result of a method: the client after the call, the value returned,
\* the requests sent
Result(s, ret, net) == [s |-> s, ret |-> ret, net |-> net]

\* a file is absent, holds valid JSON (content), or is corrupt
EmptySession == [access_token |-> None, refresh_token |-> None,
                 account_id |-> None, expires_at |-> 0, expires_at_key |-> "number"]

File(state, content) == [state |-> state, content |-> content]

\* the four fields of the Credential held by the client s
Credential(s) == [access_token |-> s.access_token, refresh_token |-> s.refresh_token,
                  account_id |-> s.account_id, expires_at |-> s.expires_at,
                  expires_at_key |-> s.expires_at_key]

\* open(path, 'w') followed by json.dump
write_file(old, content, wr, empty) ==
    CASE wr = "ok" -> File("ok", content)
      [] wr = "open_fail" -> old
      [] OTHER -> File(Corrupt, empty)

\* _load_session that does not read account_id
load_session_no_account(s) ==
    IF s.session_file.state # "ok"
    THEN s
    ELSE [s EXCEPT !.access_token = s.session_file.content.access_token,
                   !.refresh_token = s.session_file.content.refresh_token,
                   !.expires_at = s.session_file.content.expires_at,
                   !.expires_at_key = s.session_file.content.expires_at_key]

load_session(s) ==
    IF s.session_file.state # "ok"
    THEN s
    ELSE [s EXCEPT !.access_token = s.session_file.content.access_token,
                   !.refresh_token = s.session_file.content.refresh_token,
                   !.account_id = s.session_file.content.account_id,
                   !.expires_at = s.session_file.content.expires_at,
                   !.expires_at_key = s.session_file.content.expires_at_key]

save_session(s, wr) ==
    [s EXCEPT !.session_file =
        write_file(@, [access_token |-> s.access_token,
                       refresh_token |-> s.refresh_token,
                       account_id |-> s.account_id,
                       expires_at |-> s.expires_at,
                       expires_at_key |-> s.expires_at_key], wr, EmptySession)]

load_claimed_games(s) ==
    IF s.claimed_games_file.state # "ok" THEN <<>> ELSE s.claimed_games_file.content

save_claimed_games(s, wr) ==
    [s EXCEPT !.claimed_games_file = write_file(@, s.claimed_games, wr, <<>>)]

\* __init__: the fields are reset and the two files are loaded
init(session, ledger) ==
    LET s0 == [access_token |-> None, refresh_token |-> None, account_id |-> None,
               expires_at |-> 0, expires_at_key |-> "number", claimed_games |-> <<>>,
               session_file |-> session, claimed_games_file |-> ledger]
        s1 == load_session(s0)
    IN  [s1 EXCEPT !.claimed_games = load_claimed_games(s1)]

\* _is_token_expired with twice the skew
is_token_expired_wide(s, t) == t >= s.expires_at - 2 * RefreshSkew

\* for a client whose expires_at is a number
is_token_expired(s, t) == t >= s.expires_at - RefreshSkew

\* self.expires_at - 300 raises TypeError when expires_at is None or a string
is_token_expired_raises(s) == s.expires_at_key # "number"

\* ensure_authenticated gets past `if not self.access_token` and calls
\* _is_token_expired outside any try, so the TypeError escapes from it and
\* from get_free_games and claim_game, which call it before their try
escapes(s) == Truthy(s.access_token) /\ is_token_expired_raises(s)

\* the assignments made from a 200 token response, up to the point where a
\* null expires_in raises (time.time() + None) and the method's except clause
\* returns False without saving
set_tokens(s, t, resp, withAccount) ==
    LET s1 == [s EXCEPT !.access_token = resp.access_token,
                        !.refresh_token = resp.refresh_token,
                        !.account_id = IF withAccount THEN resp.account_id ELSE @]
    IN  IF resp.expires_in_key = None
        THEN [s |-> s1, raised |-> TRUE]
        ELSE [s |-> [s1 EXCEPT !.expires_at =
                        t + (IF resp.expires_in_key = Missing THEN DefaultExpiresIn
                             ELSE resp.expires_in),
                               !.expires_at_key = "number"],
              raised |-> FALSE]

\* _refresh_access_token that repeats a request that was not answered 200
refresh_access_token_retry(s, t, resp, wr) ==
    IF ~Truthy(s.refresh_token)
    THEN Result(s, FALSE, <<>>)
    ELSE IF resp.kind # "ok"
    THEN Result(s, FALSE, <<"refresh", "refresh">>)
    ELSE LET a == set_tokens(s, t, resp, FALSE)
         IN  IF a.raised
             THEN Result(a.s, FALSE, <<"refresh">>)
             ELSE Result(save_session(a.s, wr), TRUE, <<"refresh">>)

refresh_access_token(s, t, resp, wr) ==
    IF ~Truthy(s.refresh_token)
    THEN Result(s, FALSE, <<>>)
    ELSE IF resp.kind # "ok"
    THEN Result(s, FALSE, <<"refresh">>)
    ELSE LET a == set_tokens(s, t, resp, FALSE)
         IN  IF a.raised
             THEN Result(a.s, FALSE, <<"refresh">>)
             ELSE Result(save_session(a.s, wr), TRUE, <<"refresh">>)

\* the redirect -> code -> token exchange shared by login and complete_2fa
token_exchange(s, t, redirect, resp, wr) ==
    IF redirect # "code"
    THEN Result(s, FALSE, <<"redirect">>)
    ELSE IF resp.kind # "ok"
    THEN Result(s, FALSE, <<"redirect", "token">>)
    ELSE LET a == set_tokens(s, t, resp, TRUE)
         IN  IF a.raised
             THEN Result(a.s, FALSE, <<"redirect", "token">>)
             ELSE Result(save_session(a.s, wr), TRUE, <<"redirect", "token">>)

\* returns the pair (success, 2fa_method)
login(s, t, lresp, redirect, resp, wr) ==
    IF lresp.kind # "ok"
    THEN Result(s, <<FALSE, None>>, <<"login">>)
    ELSE IF Truthy(lresp.twoFactorRequired)
    THEN Result(s, <<FALSE, IF lresp.method = Missing THEN None ELSE lresp.method>>,
                <<"login">>)
    ELSE LET x == token_exchange(s, t, redirect, resp, wr)
         IN  Result(x.s, <<x.ret, None>>, <<"login">> \o x.net)

complete_2fa(s, t, mfa, redirect, resp, wr) ==
    IF mfa # "ok"
    THEN Result(s, FALSE, <<"mfa">>)
    ELSE LET x == token_exchange(s, t, redirect, resp, wr)
         IN  Result(x.s, x.ret, <<"mfa">> \o x.net)

\* ensure_authenticated that refreshes when only the access token is absent
ensure_authenticated_refresh_first(s, t, resp, wr) ==
    IF ~Truthy(s.access_token) /\ ~Truthy(s.refresh_token)
    THEN Result(s, FALSE, <<>>)
    ELSE IF ~Truthy(s.access_token) \/ is_token_expired(s, t)
    THEN refresh_access_token(s, t, resp, wr)
    ELSE Result(s, TRUE, <<>>)

ensure_authenticated(s, t, resp, wr) ==
    IF ~Truthy(s.access_token)
    THEN Result(s, FALSE, <<>>)
    ELSE IF is_token_expired(s, t)
    THEN refresh_access_token(s, t, resp, wr)
    ELSE Result(s, TRUE, <<>>)

\* the offers get_free_games builds from the catalog entries, in order; an
\* entry whose price (or totalPrice) is null raises AttributeError
is_free(item) ==
    CASE item.price = "number" -> item.discountPrice = 0
      [] item.price = Missing -> TRUE
      [] OTHER -> FALSE

raises(item) == item.price = "NullPrice"

offer(item) ==
    [id |-> IF item.id = Missing THEN None ELSE item.id,
     title |-> IF item.title = Missing THEN "Unknown Game" ELSE item.title,
     namespace |-> IF item.namespace = Missing THEN None ELSE item.namespace,
     description |-> IF item.description = Missing THEN None ELSE item.description]

RECURSIVE free_games(_, _)
free_games(elements, claimed) ==
    IF elements = <<>> THEN <<>>
    ELSE LET item == Head(elements)
             rest == free_games(Tail(elements), claimed)
         IN  IF is_free(item) /\ offer(item).id \notin Range(claimed)
             THEN <<offer(item)>> \o rest
             ELSE rest

\* get_free_games without the "already claimed" test
get_free_games_unfiltered(s, t, resp, wr, cat) ==
    LET ea == ensure_authenticated(s, t, resp, wr)
    IN  IF ~ea.ret
        THEN Result(ea.s, <<>>, ea.net)
        ELSE IF cat.kind # "ok" \/ \E i \in 1..Len(cat.elements) : raises(cat.elements[i])
        THEN Result(ea.s, <<>>, ea.net \o <<"catalog">>)
        ELSE Result(ea.s, free_games(cat.elements, <<>>), ea.net \o <<"catalog">>)

get_free_games(s, t, resp, wr, cat) ==
    LET ea == ensure_authenticated(s, t, resp, wr)
    IN  IF ~ea.ret
        THEN Result(ea.s, <<>>, ea.net)
        ELSE IF cat.kind # "ok" \/ \E i \in 1..Len(cat.elements) : raises(cat.elements[i])
        THEN Result(ea.s, <<>>, ea.net \o <<"catalog">>)
        ELSE Result(ea.s, free_games(cat.elements, ea.s.claimed_games),
                    ea.net \o <<"catalog">>)

valid_game(game) == Truthy(game.id) /\ Truthy(game.namespace) /\ Truthy(game.title)

\* claim_game recording the offer on every 200 response, before it looks at
\* orderComplete
claim_game_any_200(s, t, resp, wr, game, cresp, lwr) ==
    LET ea == ensure_authenticated(s, t, resp, wr)
    IN  IF ~ea.ret
        THEN Result(ea.s, FALSE, ea.net)
        ELSE IF ~valid_game(game)
        THEN Result(ea.s, FALSE, ea.net)
        ELSE IF cresp.kind = "ok"
        THEN Result(save_claimed_games(
                        [ea.s EXCEPT !.claimed_games = Append(@, game.id)], lwr),
                    Truthy(cresp.orderComplete), ea.net \o <<"claim">>)
        ELSE Result(ea.s, FALSE, ea.net \o <<"claim">>)

\* claim_game without the check of id, namespace and title
claim_game_no_validation(s, t, resp, wr, game, cresp, lwr) ==
    LET ea == ensure_authenticated(s, t, resp, wr)
    IN  IF ~ea.ret
        THEN Result(ea.s, FALSE, ea.net)
        ELSE IF cresp.kind = "ok" /\ Truthy(cresp.orderComplete)
        THEN Result(save_claimed_games(
                        [ea.s EXCEPT !.claimed_games = Append(@, game.id)], lwr),
                    TRUE, ea.net \o <<"claim">>)
        ELSE Result(ea.s, FALSE, ea.net \o <<"claim">>)

\* claim_game returning early, without a request, for an id already in the
\* ledger
claim_game_short_circuit(s, t, resp, wr, game, cresp, lwr) ==
    LET ea == ensure_authenticated(s, t, resp, wr)
    IN  IF ~ea.ret
        THEN Result(ea.s, FALSE, ea.net)
        ELSE IF ~valid_game(game)
        THEN Result(ea.s, FALSE, ea.net)
        ELSE IF game.id \in Range(ea.s.claimed_games)
        THEN Result(ea.s, FALSE, ea.net)
        ELSE IF cresp.kind = "ok" /\ Truthy(cresp.orderComplete)
        THEN Result(save_claimed_games(
                        [ea.s EXCEPT !.claimed_games = Append(@, game.id)], lwr),
                    TRUE, ea.net \o <<"claim">>)
        ELSE Result(ea.s, FALSE, ea.net \o <<"claim">>)

claim_game(s, t, resp, wr, game, cresp, lwr) ==
    LET ea == ensure_authenticated(s, t, resp, wr)
    IN  IF ~ea.ret
        THEN Result(ea.s, FALSE, ea.net)
        ELSE IF ~valid_game(game)
        THEN Result(ea.s, FALSE, ea.net)
        ELSE IF cresp.kind = "ok" /\ Truthy(cresp.orderComplete)
        THEN Result(save_claimed_games(
                        [ea.s EXCEPT !.claimed_games = Append(@, game.id)], lwr),
                    TRUE, ea.net \o <<"claim">>)
        ELSE Result(ea.s, FALSE, ea.net \o <<"claim">>)

----------------------------------------------------------------------------
(* The state machine *)

NoGame == [id |-> None, title |-> None, namespace |-> None]

NoClaimResponse == [kind |-> None, orderComplete |-> Missing]

NoCatalog == [kind |-> None, elements |-> <<>>]

NoLoginResponse == [kind |-> None, twoFactorRequired |-> Missing, method |-> Missing]

\* the threads in which a cycle runs: the scheduler's worker that runs
\* check_and_claim_free_games and the thread that /claim starts for
\* _claim_free_games_thread
Threads == {"scheduled", "manual"}

\* a thread that runs no cycle.  pc is the position of the thread, phase the
\* part of the cycle it is in, todo the offers its loop has still to go
\* through (the first one is the current one).
NoThread == [pc |-> "idle", phase |-> None, todo |-> <<>>]

NoThreads == [th \in Threads |-> NoThread]

NoTokenResponse == [kind |-> None, access_token |-> None, refresh_token |-> None,
                    account_id |-> None, expires_in_key |-> Missing, expires_in |-> 0]

\* no response of the account service was read, no session file was written
NoIO == [lresp |-> NoLoginResponse, mfa |-> None, redirect |-> None,
         resp |-> NoTokenResponse, wr |-> None]

\* A call in progress: the method, the client before it, the value it
\* returns and the requests it sent, what ensure_authenticated returned to
\* it, the ids for which claim_game had returned True before it, and those
\* of its inputs it consumed (the offer, the response to the claim
\* transaction, the outcome of the ledger write, the catalog response).
Call(op, pre, r, auth, game, cresp, lwr, cat) ==
    [op |-> op, pre |-> pre, ret |-> r.ret, net |-> r.net, auth |-> auth,
     committed |-> returned_true, game |-> game,
     cresp |-> IF "claim" \in Range(r.net) THEN cresp ELSE NoClaimResponse,
     lwr |-> IF r.s.claimed_games # pre.claimed_games THEN lwr ELSE None,
     cat |-> IF "catalog" \in Range(r.net) THEN cat ELSE NoCatalog,
     io |-> NoIO, error |-> None]

Plain(op, pre, r) == Call(op, pre, r, None, NoGame, NoClaimResponse, None, NoCatalog)

\* A call of an authentication method, with those responses of the account
\* service it read: the login response, the mfa response, the redirect
\* response, the token response, and the outcome of the session-file write
\* (made only after a 200 token response whose expires_in is not null).
Auth(op, pre, r, lresp, mfa, redirect, resp, wr) ==
    LET read(x) == x \in Range(r.net)
        token == read("token") \/ read("refresh")
    IN  [Plain(op, pre, r) EXCEPT !.io =
            [lresp |-> IF read("login") THEN lresp ELSE NoLoginResponse,
             mfa |-> IF read("mfa") THEN mfa ELSE None,
             redirect |-> IF read("redirect") THEN redirect ELSE None,
             resp |-> IF token THEN resp ELSE NoTokenResponse,
             wr |-> IF token /\ resp.kind = "ok" /\ resp.expires_in_key # None
                    THEN wr ELSE None]]

\* no call in progress
NoCall == [op |-> None]

Idle == last.op = None

\* the fields and files of the client become those of s
Becomes(s) ==
    /\ access_token' = s.access_token
    /\ refresh_token' = s.refresh_token
    /\ account_id' = s.account_id
    /\ expires_at' = s.expires_at
    /\ expires_at_key' = s.expires_at_key
    /\ claimed_games' = s.claimed_games
    /\ session_file' = s.session_file
    /\ claimed_games_file' = s.claimed_games_file

\* first run: no files
\* states of the /tfa conversation (ConversationHandler)
END == "END"

AWAITING_2FA == "AWAITING_2FA"

FirstRun == init(File(Absent, EmptySession), File(Absent, <<>>))

Init ==
    /\ access_token = FirstRun.access_token
    /\ refresh_token = FirstRun.refresh_token
    /\ account_id = FirstRun.account_id
    /\ expires_at = FirstRun.expires_at
    /\ expires_at_key = FirstRun.expires_at_key
    /\ claimed_games = FirstRun.claimed_games
    /\ session_file = FirstRun.session_file
    /\ claimed_games_file = FirstRun.claimed_games_file
    /\ now = 0
    /\ startup_ledger = {}
    /\ returned_true = {}
    /\ last = NoCall
    /\ telegram_bot = TRUE
    /\ tfa_callback = None
    /\ conversation = END
    /\ pending_reply = None
    /\ rejected = FALSE
    /\ mode = "daemon"
    /\ immediate_jobs = 1
    /\ pending = FALSE
    /\ resume_due = FALSE
    /\ threads = NoThreads

\* time passes between two calls
Tick ==
    /\ Idle
    /\ now < MaxTicks * TickStep
    /\ now' = now + TickStep
    /\ UNCHANGED <<access_token, refresh_token, account_id, expires_at, expires_at_key,
                   claimed_games, session_file, claimed_games_file,
                   startup_ledger, returned_true, last, bot, app>>

\* The process is restarted in one of the given modes: a new client is
\* constructed over the same files; start() queues the startup cycle.
RestartIn(Modes) ==
    LET s == init(session_file, claimed_games_file)
    IN  /\ Idle
        /\ Becomes(s)
        /\ startup_ledger' = Range(s.claimed_games)
        /\ returned_true' = {}
        /\ tfa_callback' = None
        /\ conversation' = END
        /\ pending_reply' = None
        /\ rejected' = FALSE
        /\ mode' \in Modes
        /\ immediate_jobs' = (IF mode' = "daemon" THEN 1 ELSE 0)
        /\ pending' = FALSE
        /\ resume_due' = FALSE
        /\ threads' = NoThreads
        /\ UNCHANGED <<now, last, telegram_bot>>

Restart == RestartIn({"daemon"})

\* the caller has taken the result of the call
Return ==
    /\ ~Idle
    /\ last' = NoCall
    /\ UNCHANGED <<access_token, refresh_token, account_id, expires_at, expires_at_key,
                   claimed_games, session_file, claimed_games_file,
                   now, startup_ledger, returned_true, bot, app>>

\* a call that ended with an exception leaving the method: nothing is
\* returned and the client is as before the call
Escaped(op, pre) ==
    [Plain(op, pre, Result(pre, None, <<>>)) EXCEPT !.error = "TypeError"]

Escapes(op) ==
    /\ last' = Escaped(op, Self)
    /\ UNCHANGED <<access_token, refresh_token, account_id, expires_at, expires_at_key,
                   claimed_games, session_file, claimed_games_file,
                   now, startup_ledger, returned_true, bot, app>>

\* Each method is called with the outcomes of the outside world drawn from
\* the given sets: TR token responses, WR session-file write outcomes, and
\* the method's own inputs.

EnsureAuthenticatedOn(TR, WR) ==
    /\ Idle
    /\ IF escapes(Self) THEN Escapes("ensure_authenticated")
       ELSE \E resp \in TR, wr \in WR :
        LET r == ensure_authenticated(Self, now, resp, wr)
        IN  /\ Becomes(r.s)
            /\ last' = Auth("ensure_authenticated", Self, r, NoLoginResponse, None,
                            None, resp, wr)
            /\ UNCHANGED <<now, startup_ledger, returned_true, bot, app>>

LoginOn(LR, RR, TR, WR) ==
    /\ Idle
    /\ \E lresp \in LR, redirect \in RR, resp \in TR, wr \in WR :
        LET r == login(Self, now, lresp, redirect, resp, wr)
        IN  /\ Becomes(r.s)
            /\ last' = Auth("login", Self, r, lresp, None, redirect, resp, wr)
            /\ UNCHANGED <<now, startup_ledger, returned_true, bot, app>>

Complete2faOn(MR, RR, TR, WR) ==
    /\ Idle
    /\ \E mfa \in MR, redirect \in RR, resp \in TR, wr \in WR :
        LET r == complete_2fa(Self, now, mfa, redirect, resp, wr)
        IN  /\ Becomes(r.s)
            /\ last' = Auth("complete_2fa", Self, r, NoLoginResponse, mfa, redirect,
                            resp, wr)
            /\ UNCHANGED <<now, startup_ledger, returned_true, bot, app>>

GetFreeGamesOn(TR, WR, CR) ==
    /\ Idle
    /\ IF escapes(Self) THEN Escapes("get_free_games")
       ELSE \E resp \in TR, wr \in WR, cat \in CR :
        LET r == get_free_games(Self, now, resp, wr, cat)
        IN  /\ Becomes(r.s)
            /\ last' = Call("get_free_games", Self, r,
                            ensure_authenticated(Self, now, resp, wr).ret,
                            NoGame, NoClaimResponse, None, cat)
            /\ UNCHANGED <<now, startup_ledger, returned_true, bot, app>>

ClaimGameOn(TR, WR, G, CR, LW) ==
    /\ Idle
    /\ Len(claimed_games) < MaxClaimed
    /\ IF escapes(Self) THEN Escapes("claim_game")
       ELSE \E resp \in TR, wr \in WR, game \in G, cresp \in CR, lwr \in LW :
        LET r == claim_game(Self, now, resp, wr, game, cresp, lwr)
        IN  /\ Becomes(r.s)
            /\ last' = Call("claim_game", Self, r,
                            ensure_authenticated(Self, now, resp, wr).ret,
                            game, cresp, lwr, NoCatalog)
            /\ returned_true' = IF r.ret THEN returned_true \cup {game.id}
                                ELSE returned_true
            /\ UNCHANGED <<now, startup_ledger, bot, app>>

----------------------------------------------------------------------------
(* Spec: the claim executor and its ledger, with the session manager      *)
(* driven by a token endpoint that either fails or issues a token valid    *)
(* for 600 s, and a session file whose writes succeed.                     *)

IssuedTokens ==
    {r \in TokenResponses :
        \/ r.kind = "exception"
        \/ /\ r.kind = "ok" /\ r.access_token # None /\ r.refresh_token # None
           /\ r.expires_in_key = "number" /\ r.expires_in = 600}

Tokens == IssuedTokens

EnsureAuthenticated == EnsureAuthenticatedOn(Tokens, {"ok"})

Login ==
    LoginOn({r \in LoginResponses : r.method # ""}, {"code", "status_err"},
            {r \in Tokens : r.access_token # "t2"}, {"ok"})

Complete2fa ==
    Complete2faOn(MfaResponses, {"code"}, {r \in Tokens : r.access_token # "t2"}, {"ok"})

ClaimGame == ClaimGameOn(Tokens, {"ok"}, Games, ClaimResponses, WriteOutcomes)

Next ==
    \/ Tick
    \/ Restart
    \/ Return
    \/ EnsureAuthenticated
    \/ Login
    \/ Complete2fa
    \/ ClaimGame

Spec == Init /\ [][Next]_vars

----------------------------------------------------------------------------
(* SpecCatalog: the catalog query over every catalog response of up to     *)
(* MaxCatalog entries, on the ledgers that successful claims of well-formed *)
(* offers build and the credentials that login, expiry and refresh give.   *)

LoginOk ==
    LoginOn({r \in LoginResponses : r.kind = "ok" /\ r.twoFactorRequired = Missing
                                    /\ r.method = Missing},
            {"code"}, {r \in Tokens : r.kind = "ok" /\ r.access_token = "t1"}, {"ok"})

ClaimOffer ==
    ClaimGameOn(Tokens, {"ok"}, [id : Ids, title : {"T"}, namespace : {"ns"}],
                {r \in ClaimResponses : r.orderComplete = "true"}, {"ok"})

GetFreeGames == GetFreeGamesOn(Tokens, {"ok"}, CatalogResponses)

NextCatalog ==
    \/ Tick
    \/ Return
    \/ LoginOk
    \/ ClaimOffer
    \/ GetFreeGames

SpecCatalog == Init /\ [][NextCatalog]_vars

----------------------------------------------------------------------------
(* SpecAuth: the authentication methods over every response of the account *)
(* service and every outcome of the session-file write; no offer is        *)
(* claimed.                                                                *)

\* the token responses that carry the access token "t1" or none; those
\* without an expires_in key are otherwise complete
AuthTokens ==
    {r \in TokenResponses :
        /\ r.access_token # "t2"
        /\ r.kind = "ok" /\ r.expires_in_key = Missing
              => r.access_token # None /\ r.refresh_token # None}

EnsureAuthenticatedAny == EnsureAuthenticatedOn(AuthTokens, WriteOutcomes)

LoginAny == LoginOn(LoginResponses, RedirectResponses, AuthTokens, WriteOutcomes)

Complete2faAny == Complete2faOn(MfaResponses, RedirectResponses, AuthTokens, WriteOutcomes)

NextAuth ==
    \/ Tick
    \/ Restart
    \/ Return
    \/ EnsureAuthenticatedAny
    \/ LoginAny
    \/ Complete2faAny

SpecAuth == Init /\ [][NextAuth]_vars

----------------------------------------------------------------------------
(* The application (app.py) and its chat bot (telegram_bot.py)             *)

\* the outcome of sending a chat message: delivered, or the send raises
ReplyOutcomes == {"ok", "raises"}

\* The state of the conversation after a handler has raised: the library
\* leaves it where it was or ends it.
AfterRaise(c) == {c, END}

\* the only element of a singleton set
The(S) == CHOOSE x \in S : TRUE

\* send_game_claimed_notification formats description[:100] before it sends:
\* with a channel configured, an offer whose description is None raises
notification_raises(game, channels) == channels /\ game.description = None

\* The claim loop of a cycle: claim_game for each offer in order and one
\* report per offer; cin[i] holds the outcomes of the outside world for
\* offer i.  The loop ends where a notification raises.
RECURSIVE claim_each(_, _, _, _, _)
claim_each(s, t, games, cin, channels) ==
    IF games = <<>> \/ cin = <<>>
    THEN [s |-> s, net |-> <<>>, reports |-> <<>>, claimed |-> {},
          attempts |-> <<>>, raised |-> FALSE]
    ELSE The({IF r.ret /\ notification_raises(Head(games), channels)
              THEN [s |-> r.s, net |-> r.net, reports |-> <<>>,
                    claimed |-> {Head(games).id}, attempts |-> <<Head(games)>>,
                    raised |-> TRUE]
              ELSE The({[s |-> rest.s, net |-> r.net \o rest.net,
                         reports |-> <<IF r.ret THEN "claimed" ELSE "claim_failed">>
                                     \o rest.reports,
                         claimed |-> IF r.ret THEN {Head(games).id} \cup rest.claimed
                                     ELSE rest.claimed,
                         attempts |-> <<Head(games)>> \o rest.attempts,
                         raised |-> rest.raised] :
                        rest \in {claim_each(r.s, t, Tail(games), Tail(cin), channels)}}) :
              r \in {claim_game(s, t, Head(cin).resp, Head(cin).wr, Head(games),
                                Head(cin).cresp, Head(cin).lwr)}})

\* check_and_claim_free_games from the catalog query on; auth and lgn tell
\* how the cycle got here
query_and_claim(s, t, net, env, auth, lgn) ==
    The({The({[s |-> c.s, net |-> net \o q.net \o c.net, auth |-> auth,
               login |-> lgn, step_up |-> FALSE, registered |-> FALSE,
               queried |-> TRUE, offers |-> q.ret, attempts |-> c.attempts,
               reports |-> c.reports, claimed |-> c.claimed, raised |-> c.raised] :
              c \in {claim_each(q.s, t, q.ret, env.claims, env.channels)}}) :
         q \in {get_free_games(s, t, env.query.resp, env.query.wr, env.query.cat)}})

\* the cycle halts after a login that did not succeed
halted(lg, net, env, lgn, report, reg) ==
    [s |-> lg.s, net |-> net, auth |-> FALSE, login |-> lgn,
     step_up |-> env.login.lresp.kind = "ok"
                 /\ Truthy(env.login.lresp.twoFactorRequired),
     registered |-> reg, queried |-> FALSE, offers |-> <<>>, attempts |-> <<>>,
     reports |-> <<report>>, claimed |-> {}, raised |-> FALSE]

\* the cycle going on to the catalog query whatever login returned
login_and_claim_no_halt(ea, t, tb, env) ==
    The({query_and_claim(lg.s, t, ea.net \o lg.net, env, FALSE,
                         IF lg.ret[1] THEN "success"
                         ELSE IF Truthy(lg.ret[2]) THEN "2fa" ELSE "failed") :
         lg \in {login(ea.s, t, env.login.lresp, env.login.redirect,
                       env.login.resp, env.login.wr)}})

\* the cycle from the call of login on
login_and_claim(ea, t, tb, env) ==
    The({IF lg.ret[1]
         THEN query_and_claim(lg.s, t, ea.net \o lg.net, env, FALSE, "success")
         ELSE IF Truthy(lg.ret[2])
         THEN halted(lg, ea.net \o lg.net, env, "2fa", "2fa_required", tb)
         ELSE halted(lg, ea.net \o lg.net, env, "failed", "login_failed", FALSE) :
         lg \in {login(ea.s, t, env.login.lresp, env.login.redirect,
                       env.login.resp, env.login.wr)}})

\* One cycle.  tb tells whether a chat bot is configured.  The result holds
\* the client after the cycle, the requests sent, what ensure_authenticated
\* and login returned, whether login asked for a second factor, whether the
\* 2FA callback was registered with the bot, whether get_free_games was
\* called and the offers it returned, the offers passed to claim_game, the
\* reports sent, the ids for which claim_game returned True and whether the
\* cycle ended by an exception.
check_and_claim_free_games(s, t, tb, env) ==
    The({IF ea.ret
         THEN query_and_claim(ea.s, t, ea.net, env, TRUE, None)
         ELSE login_and_claim(ea, t, tb, env) :
         ea \in {ensure_authenticated(s, t, env.ea.resp, env.ea.wr)}})

\* handle_2fa: the 2FA callback; on success a cycle is scheduled
handle_2fa(s, t, mfa, redirect, resp, wr) == complete_2fa(s, t, mfa, redirect, resp, wr)

\* The jobs the scheduler can run now: the daily one, and a queued run-once
\* one.
Jobs == {"daily"} \cup (IF immediate_jobs > 0 THEN {"immediate"} ELSE {})

\* what the application records of a cycle: the fields of its result, the
\* catalog response it read and whether a step-up was pending before it
Cycle(op, pre, r, was_pending, cat) ==
    [op |-> op, pre |-> pre, net |-> r.net, auth |-> r.auth, login |-> r.login,
     cat |-> IF "catalog" \in Range(r.net) THEN cat ELSE NoCatalog,
     step_up |-> r.step_up, registered |-> r.registered, queried |-> r.queried,
     offers |-> r.offers, attempts |-> r.attempts, reports |-> r.reports,
     raised |-> r.raised, pending |-> was_pending]

\* A cycle runs (the daily job, the job at startup or the job that handle_2fa
\* schedules), with the outcomes of the outside world drawn from Envs.
CheckAndClaimOn(Envs) ==
    /\ mode = "daemon"
    /\ Idle
    /\ \E job \in Jobs, env \in Envs :
        \E r \in {check_and_claim_free_games(Self, now, telegram_bot, env)} :
            /\ Len(r.s.claimed_games) <= MaxClaimed
            /\ Becomes(r.s)
            /\ tfa_callback' = IF r.registered THEN "handle_2fa" ELSE tfa_callback
            /\ rejected' = IF r.step_up THEN FALSE ELSE rejected
            /\ returned_true' = returned_true \cup r.claimed
            /\ immediate_jobs' = IF job = "immediate" THEN immediate_jobs - 1
                                 ELSE immediate_jobs
            /\ pending' = IF r.step_up THEN TRUE ELSE pending
            /\ resume_due' = IF r.queried THEN FALSE ELSE resume_due
            /\ last' = Cycle("check_and_claim_free_games", Self, r, pending,
                             env.query.cat)
            /\ UNCHANGED <<now, startup_ledger, telegram_bot, conversation,
                           pending_reply, mode, threads>>

\* _claim_free_games_thread, the cycle that /claim starts: no login, and one
\* message that lists every offer under "claimed" or "failed"
claim_free_games_thread(s, t, env) ==
    The({IF ~ea.ret
         THEN [s |-> ea.s, net |-> ea.net, auth |-> FALSE, login |-> None,
               step_up |-> FALSE, registered |-> FALSE, queried |-> FALSE,
               offers |-> <<>>, attempts |-> <<>>, reports |-> <<"not_authenticated">>,
               claimed |-> {}, raised |-> FALSE]
         ELSE The({IF q.offers = <<>>
                   THEN [q EXCEPT !.reports = <<"nothing_to_claim">>]
                   ELSE q :
                   q \in {query_and_claim(ea.s, t, ea.net, [env EXCEPT !.channels = FALSE],
                                          TRUE, None)}}) :
         ea \in {ensure_authenticated(s, t, env.ea.resp, env.ea.wr)}})

\* /claim from the authorized chat
ClaimCommandOn(Envs) ==
    /\ mode = "daemon"
    /\ telegram_bot
    /\ pending_reply = None
    /\ Idle
    /\ \E env \in Envs :
        \E r \in {claim_free_games_thread(Self, now, env)} :
            /\ Len(r.s.claimed_games) <= MaxClaimed
            /\ Becomes(r.s)
            /\ returned_true' = returned_true \cup r.claimed
            /\ resume_due' = IF r.queried THEN FALSE ELSE resume_due
            /\ last' = Cycle("claim_free_games_thread", Self, r, pending,
                             env.query.cat)
    /\ UNCHANGED <<now, startup_ledger, bot, mode, immediate_jobs, pending,
                   threads>>

\* /tfa, the entry point of the conversation, from a chat that is or is not
\* authorized
TfaCommand ==
    /\ mode = "daemon"
    /\ telegram_bot
    /\ conversation = END
    /\ pending_reply = None
    /\ \E authorized \in BOOLEAN, reply \in ReplyOutcomes :
        /\ IF reply = "raises"
           THEN conversation' \in AfterRaise(conversation)
           ELSE IF authorized /\ Truthy(tfa_callback)
           THEN conversation' = AWAITING_2FA
           ELSE conversation' = END
    /\ UNCHANGED <<access_token, refresh_token, account_id, expires_at, expires_at_key,
                   claimed_games, session_file, claimed_games_file, now,
                   startup_ledger, returned_true, last, telegram_bot,
                   tfa_callback, pending_reply, rejected, app>>

\* what the application records of a code passed to handle_2fa: by which
\* path it came, what handle_2fa returned, and whether before the call a
\* step-up was pending and the last code had been rejected
Submission(path, pre, r) ==
    [op |-> "handle_2fa", path |-> path, pre |-> pre, ret |-> r.ret, net |-> r.net,
     rejected |-> rejected, pending |-> pending]

\* _process_2fa_code up to the return of the callback: a text message of the
\* authorized chat while the conversation awaits the code
Process2faCodeOn(MR, RR, TR, WR) ==
    /\ mode = "daemon"
    /\ telegram_bot
    /\ conversation = AWAITING_2FA
    /\ pending_reply = None
    /\ Idle
    /\ \E received \in ReplyOutcomes, reply \in ReplyOutcomes,
          mfa \in MR, redirect \in RR, resp \in TR, wr \in WR :
        LET r == handle_2fa(Self, now, mfa, redirect, resp, wr)
        IN  IF received = "raises"
            THEN /\ conversation' \in AfterRaise(conversation)
                 /\ UNCHANGED <<access_token, refresh_token, account_id, expires_at, expires_at_key,
                                claimed_games, session_file, claimed_games_file,
                                last, pending_reply, rejected, app>>
            ELSE IF Truthy(tfa_callback)
            THEN /\ r.ret => immediate_jobs < MaxJobs
                 /\ Becomes(r.s)
                 /\ pending_reply' = IF r.ret THEN "success" ELSE "failed"
                 /\ rejected' = ~r.ret
                 /\ pending' = FALSE
                 /\ immediate_jobs' = IF r.ret THEN immediate_jobs + 1
                                      ELSE immediate_jobs
                 /\ resume_due' = IF r.ret THEN TRUE ELSE resume_due
                 /\ last' = Submission("chat", Self, r)
                 /\ UNCHANGED <<conversation, mode, threads>>
            ELSE /\ conversation' = IF reply = "ok" THEN END ELSE conversation
                 /\ UNCHANGED <<access_token, refresh_token, account_id, expires_at, expires_at_key,
                                claimed_games, session_file, claimed_games_file,
                                last, pending_reply, rejected, app>>
    /\ UNCHANGED <<now, startup_ledger, returned_true, telegram_bot, tfa_callback>>

\* main with --2fa-code: the code is passed to handle_2fa, which queues a
\* cycle in the scheduler on success; start() is not called, and the process
\* ends
Main2faCodeOn(MR, RR, TR, WR) ==
    /\ mode = "cli"
    /\ Idle
    /\ \E mfa \in MR, redirect \in RR, resp \in TR, wr \in WR :
        \E r \in {handle_2fa(Self, now, mfa, redirect, resp, wr)} :
            /\ Becomes(r.s)
            /\ rejected' = ~r.ret
            /\ pending' = FALSE
            /\ immediate_jobs' = IF r.ret THEN immediate_jobs + 1 ELSE immediate_jobs
            /\ resume_due' = IF r.ret THEN TRUE ELSE resume_due
            /\ last' = Submission("cli", Self, r)
    /\ mode' = "exited"
    /\ UNCHANGED <<now, startup_ledger, returned_true, telegram_bot, tfa_callback,
                   conversation, pending_reply, threads>>

\* _process_2fa_code from the return of the callback: the result is reported
\* to the chat, then the callback is reset and the conversation ends
Process2faCodeReply ==
    /\ mode = "daemon"
    /\ pending_reply # None
    /\ \E reply \in ReplyOutcomes :
        IF reply = "ok"
        THEN tfa_callback' = None /\ conversation' = END
        ELSE tfa_callback' = tfa_callback /\ conversation' \in AfterRaise(conversation)
    /\ pending_reply' = None
    /\ UNCHANGED <<access_token, refresh_token, account_id, expires_at, expires_at_key,
                   claimed_games, session_file, claimed_games_file, now,
                   startup_ledger, returned_true, last, telegram_bot, rejected,
                   app>>

\* /cancel, the fallback of the conversation
CancelCommand ==
    /\ mode = "daemon"
    /\ telegram_bot
    /\ conversation = AWAITING_2FA
    /\ pending_reply = None
    /\ \E reply \in ReplyOutcomes :
        IF reply = "ok"
        THEN tfa_callback' = None /\ conversation' = END
        ELSE tfa_callback' = tfa_callback /\ conversation' \in AfterRaise(conversation)
    /\ UNCHANGED <<access_token, refresh_token, account_id, expires_at, expires_at_key,
                   claimed_games, session_file, claimed_games_file, now,
                   startup_ledger, returned_true, last, telegram_bot,
                   pending_reply, rejected, app>>

----------------------------------------------------------------------------
(* SpecTfa: cycles that find nothing to claim, and the /tfa conversation   *)
(* of the chat bot, with and without a chat bot configured.                *)

\* a complete token response, or none
TfaTokens == {r \in IssuedTokens : r.access_token # "t2"}

\* the catalog lists nothing, or its query fails
EmptyCatalogs == {[kind |-> k, elements |-> <<>>] : k \in {"exception", "status_err", "ok"}}

TfaEnvs ==
    [ea : [resp : TfaTokens, wr : {"ok"}],
     login : [lresp : LoginResponses, redirect : {"code", "status_err"},
              resp : TfaTokens, wr : {"ok"}],
     query : [resp : TfaTokens, wr : {"ok"}, cat : EmptyCatalogs],
     claims : {<<>>}, channels : BOOLEAN]

CheckAndClaim == CheckAndClaimOn(TfaEnvs)

Process2faCode == Process2faCodeOn(MfaResponses, {"code", "status_err"}, TfaTokens, {"ok"})

Main2faCode == Main2faCodeOn(MfaResponses, {"code", "status_err"}, TfaTokens, {"ok"})

\* the process is started again, as a daemon or with --2fa-code
Launch == RestartIn({"daemon", "cli"})

InitTfa ==
    /\ access_token = FirstRun.access_token
    /\ refresh_token = FirstRun.refresh_token
    /\ account_id = FirstRun.account_id
    /\ expires_at = FirstRun.expires_at
    /\ expires_at_key = FirstRun.expires_at_key
    /\ claimed_games = FirstRun.claimed_games
    /\ session_file = FirstRun.session_file
    /\ claimed_games_file = FirstRun.claimed_games_file
    /\ now = 0
    /\ startup_ledger = {}
    /\ returned_true = {}
    /\ last = NoCall
    /\ telegram_bot \in BOOLEAN
    /\ tfa_callback = None
    /\ conversation = END
    /\ pending_reply = None
    /\ rejected = FALSE
    /\ mode \in {"daemon", "cli"}
    /\ immediate_jobs = (IF mode = "daemon" THEN 1 ELSE 0)
    /\ pending = FALSE
    /\ resume_due = FALSE
    /\ threads = NoThreads

NextTfa ==
    \/ Tick
    \/ Launch
    \/ Return
    \/ CheckAndClaim
    \/ TfaCommand
    \/ Process2faCode
    \/ Main2faCode
    \/ Process2faCodeReply
    \/ CancelCommand

SpecTfa == InitTfa /\ [][NextTfa]_vars

----------------------------------------------------------------------------
(* SpecCycle: scheduled and manual cycles over catalogs of up to MaxOffers *)
(* entries, with a claim outcome for each offer.                           *)

GoodToken == [kind |-> "ok", access_token |-> "t1", refresh_token |-> "r1",
              account_id |-> "acct", expires_in_key |-> "number", expires_in |-> 600]

\* entries: free; free without a description; with a null price
CycleElements ==
    {Element("a", "T", "ns", "number", 0),
     Undescribed(Element("b", "T", "ns", "number", 0)),
     Element("a", "T", "ns", "NullPrice", 0)}

CycleCatalogs ==
    {[kind |-> "status_err", elements |-> <<>>]}
    \cup
    {[kind |-> "ok", elements |-> es] : es \in SeqsUpTo(CycleElements, MaxOffers)}

\* the outcomes for one offer: the claim transaction completes the order or
\* is refused
OfferInputs ==
    [resp : {GoodToken}, wr : {"ok"},
     cresp : {[kind |-> "ok", orderComplete |-> "true"],
              [kind |-> "status_err", orderComplete |-> Missing]},
     lwr : {"ok"}]

\* the login endpoint's answers: logged in, second factor required, refused
CycleLogins ==
    {[kind |-> "ok", twoFactorRequired |-> Missing, method |-> Missing],
     [kind |-> "ok", twoFactorRequired |-> "true", method |-> "email"],
     [kind |-> "status_err", twoFactorRequired |-> Missing, method |-> Missing]}

CycleEnvsOn(Logins) ==
    [ea : [resp : {GoodToken}, wr : {"ok"}],
     login : [lresp : Logins, redirect : {"code"}, resp : {GoodToken}, wr : {"ok"}],
     query : [resp : {GoodToken}, wr : {"ok"}, cat : CycleCatalogs],
     claims : [1..MaxOffers -> OfferInputs], channels : BOOLEAN]

CycleEnvs == CycleEnvsOn(CycleLogins)

\* the manual cycle never logs in, so one login answer stands for all
ManualEnvs ==
    CycleEnvsOn({[kind |-> "ok", twoFactorRequired |-> Missing, method |-> Missing]})

ScheduledCycle == CheckAndClaimOn(CycleEnvs)

ClaimCommand == ClaimCommandOn(ManualEnvs)

NextCycle ==
    \/ Tick
    \/ Restart
    \/ Return
    \/ ScheduledCycle
    \/ ClaimCommand

SpecCycle == Init /\ [][NextCycle]_vars

----------------------------------------------------------------------------
(* SpecChat: the command handlers of the chat bot, for updates of the      *)
(* authorized chat and of another chat.                                    *)

\* TELEGRAM_CHAT_ID names one chat; updates come from it and from another
authorized_chat_ids == {"owner"}

Chats == {"owner", "stranger"}

\* _is_authorized that lets every chat in
is_authorized_open(chat) == TRUE

is_authorized(chat) == chat \in authorized_chat_ids

\* what is recorded of an update that its handler turned away
Refusal(command, chat) == [op |-> "refused", command |-> command, chat |-> chat]

\* a handler answers "You are not authorized to use this bot." and returns
\* (or the reply raises): nothing else happens
Refused(command, chat) ==
    /\ mode = "daemon"
    /\ telegram_bot
    /\ Idle
    /\ last' = Refusal(command, chat)
    /\ UNCHANGED <<access_token, refresh_token, account_id, expires_at, expires_at_key,
                   claimed_games, session_file, claimed_games_file, now,
                   startup_ledger, returned_true, bot, app>>

\* /status: ensure_authenticated, then the report
StatusCommandOn(TR, WR) ==
    /\ mode = "daemon"
    /\ telegram_bot
    /\ pending_reply = None
    /\ EnsureAuthenticatedOn(TR, WR)

\* _check_free_games_thread, started by /check: ensure_authenticated, then
\* get_free_games and one message that lists the offers
check_free_games_thread(s, t, env) ==
    The({IF ~ea.ret
         THEN [s |-> ea.s, net |-> ea.net, auth |-> FALSE, login |-> None,
               step_up |-> FALSE, registered |-> FALSE, queried |-> FALSE,
               offers |-> <<>>, attempts |-> <<>>, reports |-> <<"not_authenticated">>,
               claimed |-> {}, raised |-> FALSE]
         ELSE The({[s |-> q.s, net |-> ea.net \o q.net, auth |-> TRUE, login |-> None,
                    step_up |-> FALSE, registered |-> FALSE, queried |-> TRUE,
                    offers |-> q.ret, attempts |-> <<>>,
                    reports |-> <<IF q.ret = <<>> THEN "nothing_to_claim" ELSE "found">>,
                    claimed |-> {}, raised |-> FALSE] :
                   q \in {get_free_games(ea.s, t, env.query.resp, env.query.wr,
                                         env.query.cat)}}) :
         ea \in {ensure_authenticated(s, t, env.ea.resp, env.ea.wr)}})

CheckCommandOn(Envs) ==
    /\ mode = "daemon"
    /\ telegram_bot
    /\ pending_reply = None
    /\ Idle
    /\ \E env \in Envs :
        \E r \in {check_free_games_thread(Self, now, env)} :
            /\ Becomes(r.s)
            /\ last' = Cycle("check_free_games_thread", Self, r, pending,
                             env.query.cat)
    /\ UNCHANGED <<now, startup_ledger, returned_true, bot, app>>

\* the handlers, for an update of the given chat: each begins with
\* `if not self._is_authorized(update)`.  The text handler and /cancel are
\* taken to run for the other chat whatever the state of its conversation.
StatusFrom(chat) ==
    IF is_authorized(chat) THEN StatusCommandOn(TfaTokens, {"ok"})
    ELSE Refused("status", chat)

CheckFrom(chat) ==
    IF is_authorized(chat) THEN CheckCommandOn(TfaEnvs) ELSE Refused("check", chat)

ClaimFrom(chat) ==
    IF is_authorized(chat) THEN ClaimCommandOn(TfaEnvs) ELSE Refused("claim", chat)

TfaFrom(chat) ==
    IF is_authorized(chat) THEN TfaCommand ELSE Refused("tfa", chat)

CodeFrom(chat) ==
    IF is_authorized(chat) THEN Process2faCode ELSE Refused("code", chat)

CancelFrom(chat) ==
    IF is_authorized(chat) THEN CancelCommand ELSE Refused("cancel", chat)

UpdateFrom(chat) ==
    \/ StatusFrom(chat)
    \/ CheckFrom(chat)
    \/ ClaimFrom(chat)
    \/ TfaFrom(chat)
    \/ CodeFrom(chat)
    \/ CancelFrom(chat)

ChatUpdate == \E chat \in Chats : UpdateFrom(chat)

NextChat ==
    \/ Tick
    \/ Restart
    \/ Return
    \/ CheckAndClaim
    \/ ChatUpdate
    \/ Process2faCodeReply

SpecChat == Init /\ [][NextChat]_vars

----------------------------------------------------------------------------
(* SpecCrash: Spec with the process killed inside a write of the ledger    *)
(* file or of the session file, and started again.                         *)

\* The file after the process is killed inside open(path, 'w') + json.dump:
\* untouched (killed before open), truncated or partly written (unreadable
\* as JSON), or complete.
torn(old, content, empty) == {old, File(Corrupt, empty), File("ok", content)}

\* what is recorded of a crash inside a save: which file was being written,
\* what that file would have loaded before the write and what was being
\* written
Crash(file, before, after) ==
    [op |-> "crash", file |-> file, before |-> before, after |-> after]

\* the process starts over the files session and ledger
StartOver(session, ledger, crash) ==
    \E s \in {init(session, ledger)} :
        /\ Becomes(s)
        /\ startup_ledger' = Range(s.claimed_games)
        /\ returned_true' = {}
        /\ tfa_callback' = None
        /\ conversation' = END
        /\ pending_reply' = None
        /\ rejected' = FALSE
        /\ mode' = "daemon"
        /\ immediate_jobs' = 1
        /\ pending' = FALSE
        /\ resume_due' = FALSE
        /\ threads' = NoThreads
        /\ last' = crash
        /\ UNCHANGED <<now, telegram_bot>>

\* claim_game is killed inside _save_claimed_games, after the append
CrashInSaveClaimedGamesOn(TR, WR, G, CR) ==
    /\ Idle
    /\ Len(claimed_games) < MaxClaimed
    /\ \E resp \in TR, wr \in WR, game \in G, cresp \in CR :
        \E r \in {claim_game(Self, now, resp, wr, game, cresp, "ok")} :
            /\ r.ret
            /\ \E f \in torn(claimed_games_file, r.s.claimed_games, <<>>) :
                StartOver(r.s.session_file, f,
                          Crash("claimed_games_file", load_claimed_games(Self),
                                r.s.claimed_games))

\* ensure_authenticated is killed inside the _save_session of its refresh
CrashInSaveSessionOn(TR) ==
    /\ Idle
    /\ \E resp \in TR :
        \E r \in {ensure_authenticated(Self, now, resp, "ok")} :
            /\ r.ret
            /\ r.net = <<"refresh">>
            /\ \E f \in torn(session_file, Credential(r.s), EmptySession) :
                StartOver(f, claimed_games_file,
                          Crash("session_file",
                                Credential(init(session_file, claimed_games_file)),
                                Credential(r.s)))

CrashInSaveClaimedGames ==
    CrashInSaveClaimedGamesOn(Tokens, {"ok"}, Games, ClaimResponses)

CrashInSaveSession == CrashInSaveSessionOn(Tokens)

NextCrash ==
    \/ Next
    \/ CrashInSaveClaimedGames
    \/ CrashInSaveSession

SpecCrash == Init /\ [][NextCrash]_vars

----------------------------------------------------------------------------
(* SpecFatal: the client over every session file: absent, unreadable, or   *)
(* valid JSON with or without tokens and with an expires_at that is a      *)
(* number, null or a string.                                               *)

SessionFiles ==
    {File(Absent, EmptySession), File(Corrupt, EmptySession)}
    \cup
    {File("ok", c) :
        c \in [access_token : {None, "t1"}, refresh_token : {None, "r1"},
               account_id : {"acct"}, expires_at : {0, 900},
               expires_at_key : {"number"}]
              \cup
              [access_token : {None, "t1"}, refresh_token : {None, "r1"},
               account_id : {"acct"}, expires_at : {0},
               expires_at_key : {None, "str"}]}

\* the client is constructed over one of the session files and no ledger
InitFatal ==
    \E f \in SessionFiles :
        \E s \in {init(f, File(Absent, <<>>))} :
            /\ access_token = s.access_token
            /\ refresh_token = s.refresh_token
            /\ account_id = s.account_id
            /\ expires_at = s.expires_at
            /\ expires_at_key = s.expires_at_key
            /\ claimed_games = s.claimed_games
            /\ session_file = s.session_file
            /\ claimed_games_file = s.claimed_games_file
            /\ now = 0
            /\ startup_ledger = {}
            /\ returned_true = {}
            /\ last = NoCall
            /\ telegram_bot = TRUE
            /\ tfa_callback = None
            /\ conversation = END
            /\ pending_reply = None
            /\ rejected = FALSE
            /\ mode = "daemon"
            /\ immediate_jobs = 1
            /\ pending = FALSE
            /\ resume_due = FALSE
            /\ threads = NoThreads

\* a catalog with one free entry
FatalCatalogs ==
    {[kind |-> "ok", elements |-> <<Element("a", "T", "ns", "number", 0)>>]}

GetFreeGamesFatal == GetFreeGamesOn(Tokens, {"ok"}, FatalCatalogs)

NextFatal ==
    \/ Tick
    \/ Restart
    \/ Return
    \/ EnsureAuthenticated
    \/ Login
    \/ Complete2fa
    \/ GetFreeGamesFatal
    \/ ClaimGame

SpecFatal == InitFatal /\ [][NextFatal]_vars

----------------------------------------------------------------------------
(* Properties of the claim executor and its ledger (Spec)                  *)

Claiming == last.op = "claim_game"

Querying == last.op = "get_free_games"

\* C1: an id that was not in the ledger loaded at startup is in
\* claimed_games if and only if a claim_game call for it has returned True
\* since startup, and no call removes an id from claimed_games (a restart
\* constructs a new client from the ledger file).
C1_LedgerIffClaimReturnedTrue ==
    /\ [](\A id \in Ids \cup {None, ""} :
            id \notin startup_ledger =>
                (id \in Range(claimed_games) <=> id \in returned_true))
    /\ [][Restart \/ Range(claimed_games) \subseteq Range(claimed_games')]_vars

C1_Witness ==
    /\ Claiming /\ last.ret = TRUE
    /\ startup_ledger # {}
    /\ last.game.id \notin startup_ledger
    /\ last.game.id \in Range(claimed_games)

\* C2 (as claimed): whenever claim_game returns True, the ledger file holds
\* the offer's id, whatever the outcome of the ledger file write.
C2_TrueImpliesPersisted ==
    (Claiming /\ last.ret = TRUE) =>
        /\ claimed_games_file.state = "ok"
        /\ last.game.id \in Range(claimed_games_file.content)

\* C3 (as claimed): after a claim_game call for an id for which an earlier
\* call had returned True, claimed_games holds exactly one copy of the id,
\* whatever the outcome of the second transaction.
C3_ExactlyOneCopy ==
    (Claiming /\ last.game.id \in last.committed) =>
        Count(claimed_games, last.game.id) = 1

\* C4 (as claimed): claim_game returns True if and only if the claim
\* transaction was sent and its response has status 200 and orderComplete
\* true; every other response yields False.
C4_TrueIffOrderCompleteTrue ==
    Claiming =>
        (last.ret = TRUE <=>
            /\ "claim" \in Range(last.net)
            /\ last.cresp.kind = "ok"
            /\ last.cresp.orderComplete = "true")

\* C5: a claim_game call that returns False leaves claimed_games and the
\* ledger file as they were before the call.
C5_FalseLeavesLedger ==
    (Claiming /\ last.ret = FALSE) =>
        /\ claimed_games = last.pre.claimed_games
        /\ claimed_games_file = last.pre.claimed_games_file

C5_Witness ==
    /\ Claiming /\ last.ret = FALSE
    /\ "claim" \in Range(last.net)
    /\ last.cresp.kind = "ok"
    /\ claimed_games # <<>>
    /\ claimed_games_file.state = "ok"

\* the credential the call found needs no refresh: there is no access token
\* (ensure_authenticated returns False at once) or the token is not within
\* RefreshSkew of its expiry
NoRefreshNeeded ==
    ~Truthy(last.pre.access_token) \/ ~is_token_expired(last.pre, now)

\* C6 (as claimed): for an offer whose id, namespace or title is absent or
\* empty, claim_game returns False, performs no network call and leaves the
\* ledger unchanged.
C6_InvalidOfferNoNetworkCall ==
    (Claiming /\ ~valid_game(last.game)) =>
        /\ last.ret = FALSE
        /\ last.net = <<>>
        /\ claimed_games = last.pre.claimed_games
        /\ claimed_games_file = last.pre.claimed_games_file

\* C6 (amended): for such an offer claim_game returns False, sends no claim
\* transaction and leaves the ledger unchanged; it performs no network call
\* at all when the credential needs no refresh, and otherwise its only
\* request is the token refresh of ensure_authenticated.
C6_InvalidOfferNoClaimRequest ==
    (Claiming /\ ~valid_game(last.game)) =>
        /\ last.ret = FALSE
        /\ last.net \in {<<>>, <<"refresh">>}
        /\ NoRefreshNeeded => last.net = <<>>
        /\ claimed_games = last.pre.claimed_games
        /\ claimed_games_file = last.pre.claimed_games_file

C6_Witness ==
    /\ Claiming /\ ~valid_game(last.game)
    /\ last.auth
    /\ last.net = <<"refresh">>
    /\ claimed_games # <<>>

\* C7: a claim_game call of an authenticated client for a well-formed offer
\* whose id is already in claimed_games sends the claim transaction.
C7_NoShortCircuit ==
    (/\ Claiming /\ last.auth /\ valid_game(last.game)
     /\ last.game.id \in Range(last.pre.claimed_games)) =>
        last.net \in {<<"claim">>, <<"refresh", "claim">>}

C7_Witness ==
    /\ Claiming /\ last.auth /\ valid_game(last.game)
    /\ last.game.id \in Range(last.pre.claimed_games)
    /\ "claim" \in Range(last.net)
    /\ last.ret = FALSE

----------------------------------------------------------------------------
(* Properties of the catalog query (SpecCatalog)                           *)

\* C8: no offer returned by get_free_games has an id that was in
\* claimed_games when the call was made.
C8_ReturnedOffersUnclaimed ==
    Querying =>
        \A i \in 1..Len(last.ret) :
            last.ret[i].id \notin Range(last.pre.claimed_games)

C8_Witness ==
    /\ Querying /\ last.ret # <<>>
    /\ \E i \in 1..Len(last.cat.elements) :
        /\ is_free(last.cat.elements[i])
        /\ last.cat.elements[i].id \in Range(last.pre.claimed_games)

\* the entries whose discount price is the number 0 and whose id is not
\* claimed, in catalog order
RECURSIVE zero_priced_unclaimed(_, _)
zero_priced_unclaimed(elements, claimed) ==
    IF elements = <<>> THEN <<>>
    ELSE LET item == Head(elements)
             rest == zero_priced_unclaimed(Tail(elements), claimed)
         IN  IF /\ item.price = "number" /\ item.discountPrice = 0
                /\ item.id \notin Range(claimed)
             THEN <<offer(item)>> \o rest
             ELSE rest

\* C9 (as claimed): for an authenticated client and a catalog response,
\* get_free_games returns exactly the entries whose discount price is 0 and
\* whose id is not claimed, in catalog order.
C9_ExactlyZeroPricedUnclaimed ==
    (Querying /\ last.auth /\ last.cat.kind = "ok") =>
        last.ret = zero_priced_unclaimed(last.cat.elements, last.pre.claimed_games)

\* C10 (as claimed): when ensure_authenticated does not return True,
\* get_free_games performs no network call and its outcome differs from
\* that of an empty catalog (the empty list).
C10_NotAuthenticatedFailsFast ==
    (Querying /\ ~last.auth) =>
        /\ last.net = <<>>
        /\ last.ret # free_games(<<>>, last.pre.claimed_games)

----------------------------------------------------------------------------
(* Properties of the authentication methods (SpecAuth)                     *)

Ensuring == last.op = "ensure_authenticated"

LoggingIn == last.op = "login"

Completing == last.op = "complete_2fa"

\* the clock does not move during a call, so now is the time of the call
Stale(s) == s.expires_at <= now + RefreshSkew

\* C11: when the access token is absent, ensure_authenticated returns False
\* and sends no request, whether or not a refresh token is present.
C11_NoCredentialNoNetwork ==
    Ensuring /\ ~Truthy(last.pre.access_token)
        => last.ret = FALSE /\ last.net = <<>> /\ Self = last.pre

C11_Witness ==
    /\ Ensuring
    /\ ~Truthy(last.pre.access_token)
    /\ Truthy(last.pre.refresh_token)
    /\ last.ret = FALSE

\* C12: with an access token and expires_at > now + 300, ensure_authenticated
\* returns True, sends no request and leaves the Credential unchanged in
\* memory and in the session file.
C12_FreshCredentialUntouched ==
    Ensuring /\ Truthy(last.pre.access_token) /\ ~Stale(last.pre)
        => /\ last.ret = TRUE
           /\ last.net = <<>>
           /\ Credential(Self) = Credential(last.pre)
           /\ session_file = last.pre.session_file

C12_Witness ==
    /\ Ensuring
    /\ Truthy(last.pre.access_token)
    /\ ~Stale(last.pre)
    /\ last.pre.expires_at <= now + 2 * RefreshSkew
    /\ last.ret = TRUE

\* C13 as stated: with an access token and expires_at <= now + 300, a call of
\* ensure_authenticated sends exactly one refresh request and returns the
\* outcome of that refresh.
C13_ExactlyOneRefreshRequest ==
    Ensuring /\ Truthy(last.pre.access_token) /\ Stale(last.pre)
        => /\ last.net = <<"refresh">>
           /\ last.ret = refresh_access_token(last.pre, now, last.io.resp, "ok").ret

\* C13 amended: with an access token and expires_at <= now + 300, a call of
\* ensure_authenticated returns the outcome of one call of
\* _refresh_access_token, which sends exactly one refresh request when a
\* refresh token is held and none (returning False) when none is held.
C13_AtMostOneRefreshRequest ==
    Ensuring /\ Truthy(last.pre.access_token) /\ Stale(last.pre)
        => /\ last.net = IF Truthy(last.pre.refresh_token) THEN <<"refresh">> ELSE <<>>
           /\ ~Truthy(last.pre.refresh_token) => last.ret = FALSE
           /\ last.ret = refresh_access_token(last.pre, now, last.io.resp, "ok").ret

C13_Witness ==
    /\ Ensuring
    /\ Truthy(last.pre.access_token)
    /\ Stale(last.pre)
    /\ Truthy(last.pre.refresh_token)
    /\ last.net = <<"refresh">>
    /\ last.ret = TRUE

\* the session file holds exactly the Credential of the client
Persisted == session_file = File("ok", Credential(Self))

\* ensure_authenticated, called now, returns True whatever the account
\* service would answer
AuthenticatedNow ==
    \A resp \in AuthTokens, wr \in WriteOutcomes :
        ensure_authenticated(Self, now, resp, wr).ret

\* C14: whenever _refresh_access_token (called by ensure_authenticated on a
\* Credential that is about to expire) returns False, the four Credential
\* fields and the session file are as before the call.
C14_FailedRefreshLeavesCredential ==
    Ensuring /\ Truthy(last.pre.access_token) /\ Stale(last.pre) /\ last.ret = FALSE
        => /\ Credential(Self) = Credential(last.pre)
           /\ session_file = last.pre.session_file

\* C15: whenever ensure_authenticated returns True, the access token is
\* present and now < expires_at - 300.
C15_TrueImpliesValid ==
    Ensuring /\ last.ret = TRUE
        => Truthy(access_token) /\ now < expires_at - RefreshSkew

\* C16: whenever login returns (True, None), the access token is present,
\* expires_at is now + expires_in, the session file holds the Credential, and
\* ensure_authenticated called next returns True.
C16_LoginSuccessPopulated ==
    LoggingIn /\ last.ret[1] = TRUE
        => /\ last.ret[2] = None
           /\ Truthy(access_token)
           /\ last.io.resp.expires_in_key = "number"
                => expires_at = now + last.io.resp.expires_in
           /\ Persisted
           /\ AuthenticatedNow

\* C17: whenever the login response has twoFactorRequired true, whatever its
\* method, login returns (False, method) with a method that its caller
\* (`if tfa_method:`) tells apart from the (False, None) of a failure.
C17_StepUpDistinctFromFailed ==
    LoggingIn /\ last.io.lresp.kind = "ok" /\ Truthy(last.io.lresp.twoFactorRequired)
        => last.ret[1] = FALSE /\ Truthy(last.ret[2])

\* C18: whenever login does not return success, the four Credential fields
\* and the session file are as before the call.
C18_FailedLoginLeavesCredential ==
    LoggingIn /\ last.ret[1] = FALSE
        => /\ Credential(Self) = Credential(last.pre)
           /\ session_file = last.pre.session_file

\* C19: complete_2fa returns True exactly when the code is accepted and the
\* redirect and the token exchange are answered 200; when it returns True
\* the access token is present, the session file holds the Credential and
\* ensure_authenticated called next returns True.
C19_Complete2faSuccessPopulated ==
    Completing
        => /\ last.io.mfa = "ok" /\ last.io.redirect = "code" /\ last.io.resp.kind = "ok"
                /\ last.io.resp.expires_in_key # None
                <=> last.ret = TRUE
           /\ last.ret = TRUE
                => Truthy(access_token) /\ Persisted /\ AuthenticatedNow

----------------------------------------------------------------------------
(* Properties of the two-factor conversation (SpecTfa)                     *)

Submitting == last.op = "handle_2fa"

\* C20: after a rejected two-factor attempt the pending state is cleared: a
\* code is submitted (the callback is called) only when no code was rejected
\* since a login last asked for a second factor.
C20_NoSubmissionAfterRejection == Submitting => ~last.rejected

Cycling == last.op = "check_and_claim_free_games"

\* C21: a two-factor code reaches complete_2fa, by the chat conversation or
\* by --2fa-code, only while a login of this process has asked for a second
\* factor and no code has been supplied since.
C21_SubmissionOnlyWhenPending == Submitting => last.pending

\* C27: in every state the 2FA callback is registered exactly when a login
\* has asked for a second factor and no code has been supplied since.
C27_MarkerIffPending == Truthy(tfa_callback) <=> pending

\* C28: once handle_2fa has seen complete_2fa return True, get_free_games is
\* called by this process: the process does not end while the call is due.
C28_AcceptedCodeResumes == mode = "exited" => ~resume_due

\* C29: while a step-up is pending, a cycle sends no login request, no
\* catalog query and no claim transaction.
C29_SuspendedWhilePending ==
    Cycling /\ last.pending
        => Range(last.net) \cap {"login", "catalog", "claim"} = {}

----------------------------------------------------------------------------
(* Properties of persistence across a restart (Spec)                       *)

\* the Credential of s is valid at time t
Valid(s, t) == Truthy(s.access_token) /\ t < s.expires_at - RefreshSkew

\* the client constructed by a new process after the client s has written
\* both files
Reloaded(s) ==
    The({init(w.session_file, w.claimed_games_file) :
         w \in {save_claimed_games(save_session(s, "ok"), "ok")}})

ManualCycling == last.op = "claim_free_games_thread"

\* the last step was a cycle that called get_free_games
InLoop == (Cycling \/ ManualCycling) /\ last.queried

\* the last step was a scheduled cycle in which ensure_authenticated returned
\* False and login returned neither success
Halting == Cycling /\ ~last.auth /\ last.login \in {"2fa", "failed"}

\* C23: a cycle in which ensure_authenticated is False and login asks for a
\* second factor or fails, halts: it calls neither get_free_games nor
\* claim_game and sends neither a catalog nor a claim request.
C23_HaltsAfterFailedLogin ==
    Halting => /\ ~last.queried
               /\ last.offers = <<>>
               /\ last.attempts = <<>>
               /\ Range(last.net) \cap {"catalog", "claim"} = {}

\* a cycle over a stored session that is stale or absent sent a login
\* request, was asked for a second factor and stopped there
C23_Witness ==
    /\ Halting
    /\ last.login = "2fa"
    /\ last.step_up
    /\ last.net[Len(last.net)] = "login"

\* the reports of a cycle that tell the outcome of a claim
claim_reports(reports) ==
    SelectSeq(reports, LAMBDA r : r \in {"claimed", "claim_failed"})

\* C24: a cycle that reaches the claim loop passes every offer that
\* get_free_games returned to claim_game, in the order of the catalog, and
\* produces one report of success or failure for each of them.
C24_EveryOfferAttemptedAndReported ==
    InLoop => /\ last.attempts = last.offers
                /\ Len(claim_reports(last.reports)) = Len(last.offers)

\* C25: within one cycle no two calls of claim_game are for the same id.
C25_OneAttemptPerId ==
    Cycling \/ ManualCycling =>
        \A i, j \in 1..Len(last.attempts) :
            last.attempts[i].id = last.attempts[j].id => i = j

\* an entry of a catalog response that has its id, namespace, title and price
\* structure
well_formed(item) ==
    /\ Truthy(item.id) /\ Truthy(item.namespace) /\ Truthy(item.title)
    /\ item.price = "number"

\* C26: when a cycle reads a catalog response with a malformed entry, every
\* entry of it that is well formed, free and not in the ledger is still
\* returned by get_free_games and passed to claim_game.
C26_MalformedEntryIsLocal ==
    /\ InLoop
    /\ last.cat.kind = "ok"
    /\ \E k \in 1..Len(last.cat.elements) : ~well_formed(last.cat.elements[k])
    =>  \A i \in 1..Len(last.cat.elements) :
            LET item == last.cat.elements[i]
            IN  well_formed(item) /\ is_free(item)
                /\ item.id \notin Range(last.pre.claimed_games)
                => /\ offer(item) \in Range(last.offers)
                   /\ offer(item) \in Range(last.attempts)

(***************************************************************************)
(* The call after a failed refresh (SpecAuth).                             *)
(***************************************************************************)

\* the last step was an ensure_authenticated call that went to
\* _refresh_access_token and returned its False
FailedRefresh ==
    Ensuring /\ Truthy(last.pre.access_token) /\ Stale(last.pre) /\ last.ret = FALSE

\* C30: after an ensure_authenticated call that returned False because its
\* refresh failed, the next ensure_authenticated call of the process, now or
\* a tick later, goes to _refresh_access_token again, and returns True only
\* with a refresh request that was answered 200.
C30_FailedRefreshIsRetried ==
    FailedRefresh =>
        \A t \in {now, now + TickStep}, resp \in AuthTokens, wr \in WriteOutcomes :
            /\ Truthy(access_token)
            /\ is_token_expired(Self, t)
            /\ ensure_authenticated(Self, t, resp, wr).ret
                   => /\ resp.kind = "ok"
                      /\ "refresh" \in Range(ensure_authenticated(Self, t, resp, wr).net)

(***************************************************************************)
(* Crashes, restarts and retries of the claim executor (Spec).             *)
(***************************************************************************)

\* C34: when the process is restarted between two calls, every id for which
\* claim_game has returned True since startup is in claimed_games of the new
\* client, so that its get_free_games leaves that id out.
C34_ClaimedSurvivesRestart ==
    [][Restart => \A id \in returned_true :
                      /\ id \in Range(claimed_games')
                      /\ \A item \in Elements :
                             offer(item).id = id
                                 => free_games(<<item>>, claimed_games') = <<>>]_vars

\* the last step was a claim_game call that returned False
FailedClaim == Claiming /\ last.ret = FALSE

C37_EveryMutationPersisted ==
    (Ensuring \/ LoggingIn \/ Completing) /\ Credential(Self) # Credential(last.pre)
        => Persisted

(***************************************************************************)
(* Authorization of chat updates (SpecChat).                               *)
(***************************************************************************)

\* C39: an update of a chat that is not in authorized_chat_ids, whatever its
\* command, makes no handler call ensure_authenticated, get_free_games,
\* claim_game or the 2FA callback, and leaves the client, its files and the
\* registered 2FA callback as they are.
C39_StrangerChangesNothing ==
    [][\A chat \in Chats \ authorized_chat_ids :
          UpdateFrom(chat) =>
              /\ last'.op = "refused"
              /\ UNCHANGED <<access_token, refresh_token, account_id, expires_at, expires_at_key,
                             claimed_games, session_file, claimed_games_file,
                             returned_true, tfa_callback, conversation,
                             pending_reply, rejected, app>>]_vars

\* a text message of the other chat was turned away while a 2FA callback is
\* registered
C39_Witness ==
    /\ last.op = "refused"
    /\ last.chat \notin authorized_chat_ids
    /\ last.command = "code"
    /\ Truthy(tfa_callback)

(***************************************************************************)
(* Crashes inside a write (SpecCrash).                                     *)
(***************************************************************************)

Crashed == last.op = "crash"

\* C33: when the process is killed inside a write of the ledger file or of
\* the session file, the next startup loads either what the file held before
\* the write or what was being written; no id of the earlier ledger is lost.
C33_CrashInSaveLoadsOldOrNew ==
    /\ Crashed /\ last.file = "claimed_games_file"
           => /\ claimed_games \in {last.before, last.after}
              /\ Range(last.before) \subseteq Range(claimed_games)
    /\ Crashed /\ last.file = "session_file"
           => Credential(Self) \in {last.before, last.after}

(***************************************************************************)
(* Errors that escape from the core operations (SpecFatal).                *)
(***************************************************************************)

CoreOperations ==
    {"ensure_authenticated", "login", "complete_2fa", "get_free_games", "claim_game"}

\* C36: over every session file, every response and every offer, each call
\* of ensure_authenticated, login, complete_2fa, get_free_games and
\* claim_game returns a result: no exception leaves the method.
C36_NoErrorEscapes == last.op \in CoreOperations => last.error = None

----------------------------------------------------------------------------
(* Two cycles on one client, step by step                                  *)
(*                                                                         *)
(* The scheduled cycle and the /claim thread share the client object and  *)
(* nothing in the code serializes them: there is no lock, and each method *)
(* reads and writes the fields of the client around its blocking request. *)
(* A method is split here at its request: the step that sends it and the  *)
(* step that handles the response.  No request is given a timeout, so the *)
(* response step belongs to the remote endpoint.                          *)

\* the thread moves to position t
Moves(th, t) == threads' = [threads EXCEPT ![th] = t]

\* the loop over free_games goes to the next offer, or the cycle ends
next_offer(t) ==
    IF Len(t.todo) <= 1 THEN NoThread
    ELSE [pc |-> "ensure", phase |-> "claim", todo |-> Tail(t.todo)]

\* ensure_authenticated returned True: the caller goes on.  The cycle calls
\* get_free_games, get_free_games sends the catalog request, claim_game
\* validates the offer and sends the purchase request.
authenticated(t) ==
    CASE t.phase = "cycle" -> [t EXCEPT !.phase = "query"]
      [] t.phase = "query" -> [t EXCEPT !.pc = "request"]
      [] t.phase = "claim" -> IF valid_game(Head(t.todo))
                              THEN [t EXCEPT !.pc = "request"]
                              ELSE next_offer(t)

\* ensure_authenticated returned False: the scheduled cycle logs in, the
\* /claim thread reports and returns, get_free_games returns [] and the
\* cycle ends, claim_game returns False and the loop goes on
not_authenticated(th, t) ==
    CASE t.phase = "cycle" -> IF th = "scheduled" THEN [t EXCEPT !.pc = "login"]
                              ELSE NoThread
      [] t.phase = "query" -> NoThread
      [] t.phase = "claim" -> next_offer(t)

\* the fields of the client a cycle step leaves alone
UnchangedByThread ==
    UNCHANGED <<now, startup_ledger, last, bot, mode, immediate_jobs, pending,
                resume_due>>

UnchangedClient ==
    UNCHANGED <<access_token, refresh_token, account_id, expires_at,
                expires_at_key, claimed_games, session_file, claimed_games_file,
                returned_true>>

\* the scheduler fires the job, or /claim starts its thread
StartCycle(th) ==
    /\ mode = "daemon"
    /\ threads[th].pc = "idle"
    /\ Moves(th, [pc |-> "ensure", phase |-> "cycle", todo |-> <<>>])
    /\ UnchangedClient
    /\ UnchangedByThread

\* ensure_authenticated up to its return or to the refresh request, which
\* _refresh_access_token sends with the refresh token it reads now
EnsureAuthenticatedStep(th) ==
    /\ threads[th].pc = "ensure"
    /\ IF ~Truthy(access_token)
       THEN Moves(th, not_authenticated(th, threads[th]))
       ELSE IF ~is_token_expired(Self, now)
       THEN Moves(th, authenticated(threads[th]))
       ELSE IF ~Truthy(refresh_token)
       THEN Moves(th, not_authenticated(th, threads[th]))
       ELSE Moves(th, [threads[th] EXCEPT !.pc = "refresh"])
    /\ UnchangedClient
    /\ UnchangedByThread

\* _refresh_access_token from the response on: the assignments, the save
refresh_response(s, t, resp, wr) ==
    IF resp.kind # "ok"
    THEN Result(s, FALSE, <<"refresh">>)
    ELSE LET a == set_tokens(s, t, resp, FALSE)
         IN  IF a.raised
             THEN Result(a.s, FALSE, <<"refresh">>)
             ELSE Result(save_session(a.s, wr), TRUE, <<"refresh">>)

RefreshResponseOn(th, TR) ==
    /\ threads[th].pc = "refresh"
    /\ \E resp \in TR :
        \E r \in {refresh_response(Self, now, resp, "ok")} :
            /\ Becomes(r.s)
            /\ Moves(th, IF r.ret
                         THEN authenticated([threads[th] EXCEPT !.pc = "ensure"])
                         ELSE not_authenticated(th, [threads[th] EXCEPT !.pc = "ensure"]))
    /\ UNCHANGED returned_true
    /\ UnchangedByThread

\* login in the scheduled cycle, its requests taken as answered; on a failure
\* the cycle returns
LoginStepOn(th, Logins) ==
    /\ threads[th].pc = "login"
    /\ \E env \in Logins :
        \E r \in {login(Self, now, env.lresp, env.redirect, env.resp, "ok")} :
            /\ Becomes(r.s)
            /\ Moves(th, IF r.ret[1]
                         THEN [pc |-> "ensure", phase |-> "query", todo |-> <<>>]
                         ELSE NoThread)
    /\ UNCHANGED returned_true
    /\ UnchangedByThread

\* get_free_games from the response on: the offers are filtered against the
\* claimed_games of this moment
CatalogResponseOn(th, Catalogs) ==
    /\ threads[th].pc = "request"
    /\ threads[th].phase = "query"
    /\ \E cat \in Catalogs :
        \E offers \in {IF cat.kind # "ok"
                          \/ \E i \in 1..Len(cat.elements) : raises(cat.elements[i])
                       THEN <<>>
                       ELSE free_games(cat.elements, claimed_games)} :
            Moves(th, IF offers = <<>> THEN NoThread
                      ELSE [pc |-> "ensure", phase |-> "claim", todo |-> offers])
    /\ UnchangedClient
    /\ UnchangedByThread

\* claim_game from the response on: the append to claimed_games, the save
\* and the return
ClaimResponseOn(th, CR) ==
    /\ threads[th].pc = "request"
    /\ threads[th].phase = "claim"
    /\ \E cresp \in CR :
        IF cresp.kind = "ok" /\ Truthy(cresp.orderComplete)
        THEN /\ Len(claimed_games) < MaxClaimed
             /\ Becomes(save_claimed_games(
                    [Self EXCEPT !.claimed_games = Append(@, Head(threads[th].todo).id)],
                    "ok"))
             /\ returned_true' = returned_true \cup {Head(threads[th].todo).id}
        ELSE UnchangedClient
    /\ Moves(th, next_offer(threads[th]))
    /\ UnchangedByThread

\* the answers of the remote endpoints: a catalog of two free offers with
\* different ids, or an error; a completed order, or an error; a token, or
\* an error; a login without a second factor, or an error
RaceCatalogs ==
    {[kind |-> "ok", elements |-> <<Element("a", "T", "ns", "number", 0),
                                    Element("c", "T", "ns", "number", 0)>>],
     [kind |-> "status_err", elements |-> <<>>]}

RaceClaims == {[kind |-> "ok", orderComplete |-> "true"],
               [kind |-> "status_err", orderComplete |-> Missing]}

FailedToken == [kind |-> "status_err", access_token |-> None, refresh_token |-> None,
                account_id |-> None, expires_in_key |-> Missing, expires_in |-> 0]

RaceTokens == {GoodToken, FailedToken}

RaceLogins ==
    {[lresp |-> [kind |-> k, twoFactorRequired |-> Missing, method |-> Missing],
      redirect |-> "code", resp |-> GoodToken] : k \in {"ok", "status_err"}}

\* a step of the program in thread th: it runs as soon as the thread is
\* scheduled
ProgramStep(th) ==
    \/ EnsureAuthenticatedStep(th)
    \/ LoginStepOn(th, RaceLogins)

\* the remote endpoint answers the request thread th is blocked on
Response(th) ==
    \/ RefreshResponseOn(th, RaceTokens)
    \/ CatalogResponseOn(th, RaceCatalogs)
    \/ ClaimResponseOn(th, RaceClaims)

Start == \E th \in Threads : StartCycle(th)

Program == \E th \in Threads : ProgramStep(th)

Responses == \E th \in Threads : Response(th)

NextRace == Tick \/ Start \/ Program \/ Responses

SpecRace == Init /\ [][NextRace]_vars

\* the threads are scheduled fairly; nothing obliges an endpoint to answer
SpecRaceFair == SpecRace /\ \A th \in Threads : WF_vars(ProgramStep(th))

\* C31: under every interleaving of the scheduled cycle and the /claim
\* thread on one client, no offer id is appended to the ledger twice: the
\* list of claimed games holds each id at most once.
C31_NoIdAppendedTwice == \A id \in Range(claimed_games) : Count(claimed_games, id) = 1

\* C32: access to the client is serialized: while one cycle has a refresh
\* request in flight, the other cycle has neither a catalog or claim request
\* in flight (sent with the access token the refresh is replacing) nor a
\* refresh request of its own for the same expired Credential.
C32_RefreshIsExclusive ==
    \A th \in Threads : \A other \in Threads \ {th} :
        threads[th].pc = "refresh" => threads[other].pc \notin {"refresh", "request"}

\* C35: every started cycle eventually terminates, also when a remote
\* endpoint never answers: a thread that runs a cycle eventually runs none.
C35_CycleTerminates ==
    \A th \in Threads : (threads[th].pc # "idle") ~> (threads[th].pc = "idle")

====
